---- MODULE Spec2Model ----
(***************************************************************************)
(* Model of the ERS_NRB processor: the tile data-mask fusion               *)
(* (create_data_mask), the acquisition-id compositor (create_acq_id_image) *)
(* and the derived-raster builders (vrt_pixfun, create_rgb_vrt) of         *)
(* ERS_NRB/ancillary.py, the tile resolution of ERS_NRB/tile_extraction.py *)
(* and the per-tile product generation and the job of                      *)
(* ERS_NRB/processor.py.                                                   *)
(*                                                                         *)
(* A raster is a sequence of pixel values over Pixels (the tile grid       *)
(* flattened).  np.nan is the value NaN.  A call of a function is one      *)
(* action: the action draws the arguments and the content of what the call *)
(* reads, and leaves in the state what the call computed, raised and       *)
(* wrote.  Each function has a specification of its own.                   *)
(***************************************************************************)
EXTENDS Integers, Sequences, FiniteSets, TLC

\* ------------------------------------------------------------------ bounds
\* number of pixels of the tile grid
NPix == 2
\* largest number of source scenes passed to create_acq_id_image
MaxScenes == 3
\* largest number of nrb_processing runs for one tile and scene set
MaxRuns == 2
\* number of product identifiers generate_unique_id can return
NIds == 2
\* number of cells of the plane, and of tiles of the grid
NCells == 3
\* largest number of features of an AOI layer
MaxFeatures == 2
\* largest coordinate of an extent
MaxCoord == 3
\* largest number of tiles or scenes a resolver is given
MaxEntries == 2
\* largest number of source datasets passed to vrt_pixfun
MaxSources == 3
\* latest start time of a scene, in seconds
MaxTime == 4
\* largest longitude of a footprint corner, in tenths of a degree
MaxLon == 3

Pixels == 1..NPix

\* ------------------------------------------------------- values and rasters
\* np.nan: what Raster.array() returns for a no-data pixel
NaN == -1
\* out_nodata = 255 of both functions
out_nodata == 255

isnan(x) == x = NaN

\* values a layover/shadow raster (layoverShadowMask) carries
LsVals == {NaN, 0, 1, 2, 3}
\* values a validity raster (datamask) carries: no-data, a stored 0, inside swath
ValidVals == {NaN, 0, 1}
\* backscatter: no-data or a measured value
GammaVals == {NaN, 1}
\* water body mask: 1 flags water
WbmVals == {0, 1}

\* ----------------------------------------------------------------- state
VARIABLES
    pc,               \* "idle" before the call, "done" after it
    op,               \* the function that was called
    raised,           \* the exception the call ended with, or "none"
    opened,           \* the rasters the call opened for reading
    fs,               \* the output files: data mask (dm) and acquisition id (id)
    out_format,       \* create_data_mask: argument out_format
    wbm,              \* create_data_mask: argument wbm (a path or "None")
    arr_snap_dm,      \* create_data_mask: layover/shadow raster as read
    arr_wbm,          \* create_data_mask: water body mask as read (uncropped)
    arr_snap_valid,   \* create_data_mask: merged validity raster as read
    arr_snap_gamma0,  \* create_data_mask: backscatter raster as read
    out_arr,          \* create_data_mask: the fused class raster
    scenes_arg,       \* create_acq_id_image: argument src_scenes
    masks_arg,        \* create_acq_id_image: argument valid_mask_list
    src_scenes,       \* create_acq_id_image: src_scenes after the re-ordering
    valid_mask_list,  \* create_acq_id_image: valid_mask_list after the re-ordering
    acq_arr,          \* create_acq_id_image: the acquisition-id raster
    tag,              \* create_acq_id_image: the provenance tag
    creation_opt,     \* create_acq_id_image: the caller's creation option list
    nrb_dirs,         \* nrb_processing: the product directories that exist
    nrb_files,        \* nrb_processing: the files of each product directory
    nrb_dm_bands,     \* nrb_processing: the band names of each data mask
    nrb_log,          \* nrb_processing: the runs made so far, oldest first
    aoi,              \* tiles_from_aoi: the features of vectorobject.layer
    aoi_cursor,       \* tiles_from_aoi: the read position of vectorobject.layer
    epsg_arg,         \* tiles_from_aoi: the epsg argument
    tfa_results,      \* tiles_from_aoi: the lists returned so far
    tx_in,            \* tile_extraction main / no_aoi: the AOI features or scenes
    spacing,          \* tile_extraction main / no_aoi: the pixel spacing
    geo_dict,         \* the entries of geo_dict, in insertion order
    align_dict,       \* align_dict, in half units of the coordinates
    steps,            \* processor.main: the processing steps started, in order
    vrt_src,          \* vrt_pixfun / create_rgb_vrt: the source list as passed
    infiles,          \* create_rgb_vrt: the caller's list after the call
    vrt_fun,          \* vrt_pixfun: the fun argument
    vrt_out,          \* vrt_pixfun / create_rgb_vrt: the VRT file written
    db_in,            \* decibel: the input array in_ar[0]
    db_buf,           \* decibel: the content of out_ar before the call
    db_out,           \* decibel: the content of out_ar after the call
    gbt_scenes,       \* group_by_time: the scenes, sorted by start
    gbt_time,         \* group_by_time: the time argument
    groups,           \* group_by_time: the groups returned
    coord_list,       \* vec_from_srccoords: the footprints of the scenes
    wkt,              \* vec_from_srccoords: the polygon built, or <<>>
    csc_scenes,       \* check_scene_consistency: the scenes
    csc_attr,         \* check_scene_consistency: the attribute the error names
    ov_scenes,        \* nrb_processing, overlap loop: the scenes argument
    ov_ids,           \* nrb_processing, overlap loop: the scenes kept so far
    ov_datasets,      \* nrb_processing, overlap loop: their datasets
    ov_i,             \* nrb_processing, overlap loop: the index i
    snap_dm_tile_overlap, \* nrb_processing, overlap loop: the mask paths
    nrbdir,           \* nrb_processing: whether the output directory exists
    job_mode,         \* processor.main: config['mode']
    job_scenes,       \* processor.main: the selected scenes with what geocode does
    job_tiles,        \* processor.main: the number of tiles of the AOI
    job_log,          \* processor.main: the calls made so far, in order
    pol_gamma0,       \* create_data_mask: the backscatter file of each polarisation
    det_ls,           \* create_data_mask: the layover and shadow raster of these runs
    det_valid,        \* create_data_mask: the valid data raster of these runs
    dm_runs           \* create_data_mask: the runs on these files, oldest first

vars == <<pc, op, raised, opened, fs, out_format, wbm, arr_snap_dm, arr_wbm,
          arr_snap_valid, arr_snap_gamma0, out_arr, scenes_arg, masks_arg,
          src_scenes, valid_mask_list, acq_arr, tag, creation_opt,
          nrb_dirs, nrb_files, nrb_dm_bands, nrb_log,
          aoi, aoi_cursor, epsg_arg, tfa_results,
          tx_in, spacing, geo_dict, align_dict, steps,
          vrt_src, infiles, vrt_fun, vrt_out,
          db_in, db_buf, db_out, gbt_scenes, gbt_time, groups,
          coord_list, wkt, csc_scenes, csc_attr,
          ov_scenes, ov_ids, ov_datasets, ov_i, snap_dm_tile_overlap, nrbdir,
          job_mode, job_scenes, job_tiles, job_log,
          pol_gamma0, det_ls, det_valid, dm_runs>>

dmVars == <<out_format, wbm, arr_snap_dm, arr_wbm, arr_snap_valid,
            arr_snap_gamma0, out_arr>>
acqVars == <<scenes_arg, masks_arg, src_scenes, valid_mask_list, acq_arr, tag,
             creation_opt>>
nrbVars == <<nrb_dirs, nrb_files, nrb_dm_bands, nrb_log>>
tfaVars == <<aoi, aoi_cursor, epsg_arg, tfa_results>>
geoVars == <<tx_in, spacing, geo_dict, align_dict, steps>>
vrtVars == <<vrt_src, infiles, vrt_fun, vrt_out>>
dbVars == <<db_in, db_buf, db_out>>
gbtVars == <<gbt_scenes, gbt_time, groups>>
vecVars == <<coord_list, wkt>>
cscVars == <<csc_scenes, csc_attr>>
ovVars == <<ov_scenes, ov_ids, ov_datasets, ov_i, snap_dm_tile_overlap, nrbdir>>
jobVars == <<job_mode, job_scenes, job_tiles, job_log>>
detVars == <<pol_gamma0, det_ls, det_valid, dm_runs>>

\* product directories: 0 is the working name (id 'ABCD'), 1..NIds carry a
\* product identifier
DirIds == 0..NIds

\* the epsg argument left out (None)
NoEpsg == [kind |-> "None", codes |-> {}]

\* no alignment origin computed
NoAlign == [xmax |-> 0, ymin |-> 0, set |-> FALSE]

\* no VRT file written
NoVrt == [written |-> FALSE, bands |-> <<>>]

\* a path at which nothing has been written
NoFile == [exists |-> FALSE, bands |-> <<>>, tag |-> <<>>]

\* write_options['acquisitionImage'] as nrb_processing passes it
BaseCreationOpt == <<"BLOCKSIZE=512", "BIGTIFF=YES">>

Init ==
    /\ pc = "idle"
    /\ op = "none"
    /\ raised = "none"
    /\ opened = {}
    /\ fs = [dm |-> NoFile, id |-> NoFile]
    /\ out_format = "None"
    /\ wbm = "None"
    /\ arr_snap_dm = <<>>
    /\ arr_wbm = <<>>
    /\ arr_snap_valid = <<>>
    /\ arr_snap_gamma0 = <<>>
    /\ out_arr = <<>>
    /\ scenes_arg = <<>>
    /\ masks_arg = <<>>
    /\ src_scenes = <<>>
    /\ valid_mask_list = <<>>
    /\ acq_arr = <<>>
    /\ tag = <<>>
    /\ creation_opt = BaseCreationOpt
    /\ nrb_dirs = {}
    /\ nrb_files = [d \in DirIds |-> {}]
    /\ nrb_dm_bands = [d \in DirIds |-> <<>>]
    /\ nrb_log = <<>>
    /\ aoi = <<>>
    /\ aoi_cursor = 1
    /\ epsg_arg = NoEpsg
    /\ tfa_results = <<>>
    /\ tx_in = [kind |-> "None", items |-> <<>>]
    /\ spacing = 2
    /\ geo_dict = <<>>
    /\ align_dict = NoAlign
    /\ steps = <<>>
    /\ vrt_src = <<>>
    /\ infiles = <<>>
    /\ vrt_fun = "none"
    /\ vrt_out = NoVrt
    /\ db_in = <<>>
    /\ db_buf = <<>>
    /\ db_out = <<>>
    /\ gbt_scenes = <<>>
    /\ gbt_time = 0
    /\ groups = <<>>
    /\ coord_list = <<>>
    /\ wkt = <<>>
    /\ csc_scenes = <<>>
    /\ csc_attr = "none"
    /\ ov_scenes = <<>>
    /\ ov_ids = <<>>
    /\ ov_datasets = <<>>
    /\ ov_i = 0
    /\ snap_dm_tile_overlap = <<>>
    /\ nrbdir = FALSE
    /\ job_mode = "all"
    /\ job_scenes = <<>>
    /\ job_tiles = 0
    /\ job_log = <<>>
    /\ pol_gamma0 = <<>>
    /\ det_ls = <<>>
    /\ det_valid = <<>>
    /\ dm_runs = <<>>

\* ------------------------------------------------------- create_data_mask
\* the out_format values a caller passes: omitted, the two documented ones,
\* and one that is not documented
OutFormats == {"None", "single-layer", "multi-layer", "geotiff"}

\* mutant of ResolveFormat: an unknown format silently falls back to the default
ResolveFormat_Lenient(fmt) ==
    IF fmt = "single-layer" THEN fmt ELSE "multi-layer"

\* lines 356-360: the format the call works with, or "raise"
ResolveFormat(fmt) ==
    IF fmt = "None" THEN "multi-layer"
    ELSE IF fmt # "single-layer" THEN "raise"
    ELSE fmt

\* lines 368-375 and 403: the bands of the multi-layer output
dm_bands(w) ==
    LET all == << [arr_val |-> 0, name |-> "not layover, nor shadow"],
                  [arr_val |-> 1, name |-> "layover"],
                  [arr_val |-> 2, name |-> "shadow"],
                  [arr_val |-> 4, name |-> "ocean water"] >>
    IN IF w # "None" THEN all ELSE SubSeq(all, 1, 3)

\* line 398: arr_wbm[:rows, :cols]
CropWbm(a) == SubSeq(a, 1, NPix)

\* line 399 / 402: the water overwrite of one pixel
WaterOverwrite(w, wv, ls) == IF w # "None" /\ wv = 1 THEN 4 ELSE ls

\* line 412: np.nan_to_num
nan_to_num(x) == IF isnan(x) THEN 0 ELSE x

\* mutant of ExtendShadow: the water class is not exempt
ExtendShadow_NoWaterGuard(v, g, c) == IF v = 1 /\ isnan(g) THEN 2 ELSE c

\* mutant of ExtendShadow: only unmasked pixels are reclassified
ExtendShadow_UnmaskedOnly(v, g, c) == IF v = 1 /\ isnan(g) /\ c = 0 THEN 2 ELSE c

\* lines 413-414: shadow extension with the backscatter no-data pattern
ExtendShadow(v, g, c) == IF v = 1 /\ isnan(g) /\ c # 4 THEN 2 ELSE c

\* line 415: out_arr[np.isnan(arr_snap_valid)] = out_nodata
MaskNodata(v, c) == IF isnan(v) THEN out_nodata ELSE c

\* lines 393-415 for one pixel
FusePixel(w, wv, ls, v, g) ==
    MaskNodata(v, ExtendShadow(v, g, nan_to_num(WaterOverwrite(w, wv, ls))))

\* mutant of BandPixel: the combined code 3 is not folded into layover and shadow
BandPixel_NoCombined(arr_val, c) ==
    IF c = out_nodata THEN out_nodata
    ELSE IF c = arr_val THEN 1
    ELSE 0

\* lines 434-441: one pixel of the band with value arr_val
BandPixel(arr_val, c) ==
    IF c = out_nodata THEN out_nodata
    ELSE IF arr_val = 0 THEN (IF c = 0 THEN 1 ELSE 0)
    ELSE IF arr_val \in {1, 2} THEN (IF c = arr_val \/ c = 3 THEN 1 ELSE 0)
    ELSE IF arr_val = 4 THEN (IF c = 4 THEN 1 ELSE 0)
    ELSE 0

\* lines 420-459: the file written for the fused raster
DataMaskFile(fmt, w, fused) ==
    IF fmt = "multi-layer"
    THEN [exists |-> TRUE,
          bands |-> [k \in 1..Len(dm_bands(w)) |->
                       [name |-> dm_bands(w)[k].name,
                        arr |-> [p \in Pixels |->
                                   BandPixel(dm_bands(w)[k].arr_val, fused[p])]]],
          tag |-> <<>>]
    ELSE [exists |-> TRUE,
          bands |-> << [name |-> "", arr |-> fused] >>,
          tag |-> <<>>]

\* the water body mask raster: the tile grid, or the grid and one extra
\* (water) pixel that GDAL sometimes creates (line 397)
WbmRasters ==
    [1..NPix -> WbmVals] \cup {Append(a, 1) : a \in [1..NPix -> WbmVals]}

create_data_mask ==
    /\ pc = "idle"
    /\ \E fmt \in OutFormats, w \in {"None", "wbm.tif"} :
        /\ out_format' = fmt
        /\ wbm' = w
        /\ op' = "create_data_mask"
        /\ pc' = "done"
        /\ IF ResolveFormat(fmt) = "raise"
           THEN /\ raised' = "RuntimeError"
                /\ UNCHANGED <<opened, fs, arr_snap_dm, arr_wbm, arr_snap_valid,
                               arr_snap_gamma0, out_arr>>
           ELSE /\ raised' = "none"
                /\ \E ls \in [Pixels -> LsVals],
                      wa \in (IF w = "None" THEN {<<>>} ELSE WbmRasters),
                      va \in [Pixels -> ValidVals],
                      ga \in [Pixels -> GammaVals] :
                    LET fused == [p \in Pixels |->
                                    FusePixel(w, IF w = "None" THEN 0 ELSE CropWbm(wa)[p],
                                              ls[p], va[p], ga[p])]
                    IN /\ arr_snap_dm' = ls
                       /\ arr_wbm' = wa
                       /\ arr_snap_valid' = va
                       /\ arr_snap_gamma0' = ga
                       /\ out_arr' = fused
                       /\ opened' = {"snap_ls", "snap_valid", "snap_gamma0"}
                                      \cup (IF w = "None" THEN {} ELSE {"wbm"})
                       /\ fs' = [fs EXCEPT !.dm =
                                   DataMaskFile(ResolveFormat(fmt), w, fused)]
    /\ UNCHANGED <<acqVars, nrbVars, tfaVars, geoVars, vrtVars,
                   dbVars, gbtVars, vecVars, cscVars, ovVars, jobVars, detVars>>

NextDataMask == create_data_mask

SpecDataMask == Init /\ [][NextDataMask]_vars

\* ---------------------------------------------------- create_acq_id_image
\* suffixes a source scene's base name ends with
Suffixes == {<<".zip">>, <<".SAFE">>, <<".E1">>}

\* a source scene: its base name (stem and suffixes) and identify(f).start
Scene(t, sfx) == [stem |-> t, suffix |-> sfx, start |-> t]

\* the datamask file of the scene with start t: the start timestamp token of
\* its base name and the raster it holds
MaskFile(t, a) == [start |-> t, arr |-> a]

\* datetime.strptime(x, '%Y%m%dT%H%M%S') and the unparsed string
datetime(t) == [type |-> "datetime", t |-> t]
str(t) == [type |-> "str", t |-> t]

\* lines 494-499: the scenes in ascending start order (two scenes only)
ReorderScenes(ss) ==
    IF Len(ss) = 2 /\ ss[1].start > ss[2].start THEN <<ss[2], ss[1]>> ELSE ss

\* lines 495-500: starts, re-read as strings after a swap
Starts(ss) ==
    IF ss[1].start > ss[2].start
    THEN [i \in 1..2 |-> str(ReorderScenes(ss)[i].start)]
    ELSE [i \in 1..2 |-> datetime(ss[i].start)]

\* lines 501-502
StartValid(ms) == [i \in 1..Len(ms) |-> datetime(ms[i].start)]

\* lines 503-506: the masks re-paired (two scenes only)
ReorderMasks(ss, ms) ==
    IF Len(ss) = 2 /\ StartValid(ms)[1] # Starts(ss)[1]
    THEN <<ms[2], ms[1]>>
    ELSE ms

\* line 522: os.path.basename(src).replace('.zip', '').replace('.SAFE', '')
Clean(s) ==
    [stem |-> s.stem,
     suffix |-> SelectSeq(s.suffix, LAMBDA x : x \notin {".zip", ".SAFE"})]

\* lines 523 and 527: the provenance tag, an ordered name -> index mapping
Tag(ss, arrs) ==
    IF Len(arrs) = 2
    THEN << [src |-> Clean(ss[1]), idx |-> 1], [src |-> Clean(ss[2]), idx |-> 2] >>
    ELSE << [src |-> Clean(ss[1]), idx |-> 1] >>

\* lines 524-529 for one pixel
AcqPixel(arrs, p) ==
    IF arrs[1][p] = 1 THEN 1
    ELSE IF Len(arrs) = 2 /\ arrs[2][p] = 1 THEN 2
    ELSE out_nodata

\* the orders of n things
Orders(n) == Permutations(1..n)

\* the orders in which the masks arrive for scenes in order so: any order for
\* two scenes (the case lines 493-506 handle), else paired with the scenes as
\* nrb_processing builds snap_dm_tile_overlap
MaskOrders(n, so) == IF n = 2 THEN Orders(n) ELSE {so}

create_acq_id_image ==
    /\ pc = "idle"
    /\ \E n \in 1..MaxScenes :
       \E so \in Orders(n), sfx \in Suffixes, va \in [1..n -> [Pixels -> ValidVals]] :
       \E mo \in MaskOrders(n, so) :
        LET ss == [i \in 1..n |-> Scene(so[i], sfx)]
            ms == [i \in 1..n |-> MaskFile(mo[i], va[mo[i]])]
            ss2 == ReorderScenes(ss)
            ms2 == ReorderMasks(ss, ms)
            arr_list == [i \in 1..n |-> ms2[i].arr]
            out == [p \in Pixels |-> AcqPixel(arr_list, p)]
        IN /\ scenes_arg' = ss
           /\ masks_arg' = ms
           /\ src_scenes' = ss2
           /\ valid_mask_list' = ms2
           /\ acq_arr' = out
           /\ tag' = Tag(ss2, arr_list)
           /\ creation_opt' = Append(creation_opt, Tag(ss2, arr_list))
           /\ opened' = {"snap_valid", "ref_tif"}
           /\ fs' = [fs EXCEPT !.id =
                       [exists |-> TRUE,
                        bands |-> << [name |-> "", arr |-> out] >>,
                        tag |-> Tag(ss2, arr_list)]]
    /\ op' = "create_acq_id_image"
    /\ pc' = "done"
    /\ raised' = "none"
    /\ UNCHANGED <<dmVars, nrbVars, tfaVars, geoVars, vrtVars,
                   dbVars, gbtVars, vecVars, cscVars, ovVars, jobVars, detVars>>

NextAcqId == create_acq_id_image

SpecAcqId == Init /\ [][NextAcqId]_vars


\* --------------------------------------------------------- nrb_processing
\* config['dem_type']
DemTypes == {"GETASSE30", "Copernicus 30m Global DEM"}

\* the wbm argument: None, the path of a file that exists, a path without file
WbmArgs == {"None", "wbm.tif", "missing.tif"}

\* os.path.isfile(wbm) of line 283: "TypeError" for None
IsFile(w) ==
    IF w = "None" THEN "TypeError" ELSE IF w = "wbm.tif" THEN "yes" ELSE "no"

\* line 283-284: the exception of the water body mask check, or "none"; the
\* right operand of `and` is evaluated only when the left one is true
WbmCheck(dem, w) ==
    IF dem = "GETASSE30" THEN "none"
    ELSE IF IsFile(w) = "TypeError" THEN "TypeError"
    ELSE IF IsFile(w) = "no" THEN "FileNotFoundError"
    ELSE "none"

\* line 287: Raster(wbm) opens the file, which fails for None and for a path
\* without file
OpenWbm(w) == IF w = "wbm.tif" THEN "none" ELSE "RuntimeError"

\* lines 283-292: the exception the data mask step ends with before
\* create_data_mask is called, or "none"
DataMaskStep(dem, w) ==
    IF WbmCheck(dem, w) # "none" THEN WbmCheck(dem, w) ELSE OpenWbm(w)

\* lines 219-221: create_rgb_vrt reads pols[1]
RgbStep(npols) == IF npols < 2 THEN "IndexError" ELSE "none"

\* the files of a product directory, in the order nrb_processing writes them
\* lines 195-252 (measurement and annotation rasters), 268-274 (log VRTs),
\* 278 (colour composite), 290 (data mask), 297 (acquisition id), 302-313
\* (sigma nought VRTs), 316-319 (metadata)
ProductFiles == <<"meas", "log", "cc", "dm", "id", "sigma", "meta">>

\* ProductFiles[a..b] as a set
Written(a, b) == {ProductFiles[k] : k \in a..b}

\* the band names of the data mask create_data_mask writes for wbm (out_format
\* omitted, line 290)
DmBandNames(w) == [k \in 1..Len(dm_bands(w)) |-> dm_bands(w)[k].name]

\* one run of nrb_processing for the tile: dem and w are config['dem_type']
\* and wbm, npols the number of polarisations of the scene set, pid the
\* identifier generate_unique_id derives from the processing time
NrbRun(dem, w, npols, pid) ==
    LET \* lines 131-132, 223-252: working directory, rasters warped if missing
        warped == IF "meas" \in nrb_files[0] THEN {} ELSE {"meas"}
        files0 == [nrb_files EXCEPT ![0] = @ \cup {"meas"}]
        dirs0 == nrb_dirs \cup {0}
        \* lines 254-259: os.rename to the name with the product identifier
        clash == pid \in nrb_dirs
        files1 == [files0 EXCEPT ![pid] = files0[0], ![0] = {}]
        dirs1 == (dirs0 \ {0}) \cup {pid}
        rgb == RgbStep(npols)
        dms == DataMaskStep(dem, w)
        run(exc, dir, wrote) ==
            [dem_type |-> dem, wbm |-> w, npols |-> npols, raised |-> exc,
             dir |-> dir, wrote |-> wrote]
    IN IF clash
       THEN [dirs |-> dirs0, files |-> files0, bands |-> nrb_dm_bands,
             run |-> run("OSError", 0, warped)]
       ELSE IF rgb # "none"
       THEN [dirs |-> dirs1,
             files |-> [files1 EXCEPT ![pid] = @ \cup Written(2, 2)],
             bands |-> nrb_dm_bands,
             run |-> run(rgb, pid, warped \cup Written(2, 2))]
       ELSE IF dms # "none"
       THEN [dirs |-> dirs1,
             files |-> [files1 EXCEPT ![pid] = @ \cup Written(2, 3)],
             bands |-> nrb_dm_bands,
             run |-> run(dms, pid, warped \cup Written(2, 3))]
       ELSE [dirs |-> dirs1,
             files |-> [files1 EXCEPT ![pid] = @ \cup Written(2, 7)],
             bands |-> [nrb_dm_bands EXCEPT ![pid] = DmBandNames(w)],
             run |-> run("none", pid, warped \cup Written(2, 7))]

nrb_processing ==
    /\ Len(nrb_log) < MaxRuns
    /\ \E dem \in DemTypes, w \in WbmArgs, npols \in 1..2, pid \in 1..NIds :
        LET r == NrbRun(dem, w, npols, pid)
        IN /\ nrb_dirs' = r.dirs
           /\ nrb_files' = r.files
           /\ nrb_dm_bands' = r.bands
           /\ nrb_log' = Append(nrb_log, r.run)
           /\ raised' = r.run.raised
    /\ op' = "nrb_processing"
    /\ pc' = "done"
    /\ UNCHANGED <<opened, fs, dmVars, acqVars, tfaVars, geoVars, vrtVars,
                   dbVars, gbtVars, vecVars, cscVars, ovVars, jobVars, detVars>>

NextNrb == nrb_processing

SpecNrb == Init /\ [][NextNrb]_vars

\* --------------------------------------------------------- tiles_from_aoi
\* the cells of the plane, by which geometries intersect
Cells == 1..NCells

\* line 31: the tiling grid of the KML file, in file order.  A tile name
\* begins with the number of its UTM zone, its EPSG code is 32600 plus that
\* number, and neighbouring tiles overlap
Grid ==
    [k \in 1..NCells |->
        [Name |-> <<32 + (k % 2), NCells - k>>,
         EPSG |-> 32632 + (k % 2),
         cells |-> {k, k + 1} \cap Cells]]

\* the EPSG codes a caller asks for
EpsgCodes == {32632, 32633, 32634}

\* the epsg argument: None, an integer, a list of integers
EpsgArgs ==
    {NoEpsg} \cup {[kind |-> "int", codes |-> {e}] : e \in EpsgCodes}
             \cup {[kind |-> "list", codes |-> S] : S \in SUBSET {32632, 32633}}

\* the features of an AOI layer: each a non-empty set of cells
Features == (SUBSET Cells) \ {{}}
AoiLayers == UNION {[1..n -> Features] : n \in 0..MaxFeatures}

\* lines 29-30: an integer becomes a list of one
EpsgList(e) == IF e.kind = "int" THEN [kind |-> "list", codes |-> e.codes] ELSE e

\* line 41: epsg is not None and attrib['EPSG'] not in epsg
EpsgRejected(e, code) == e.kind # "None" /\ code \notin e.codes

\* `x in list`
InList(x, l) == \E i \in 1..Len(l) : l[i] = x

\* the order of tile names: the order of Python strings, here of tuples
NameLess(a, b) == a[1] < b[1] \/ (a[1] = b[1] /\ a[2] < b[2])

\* line 33: vectorobject.layer.ResetReading() puts the read position first
ResetReading(cursor) == 1

\* lines 37-43: the tiles of the grid that pass the spatial filter geom, from
\* tile k on
RECURSIVE ScanTiles(_, _, _, _)
ScanTiles(names, geom, e, k) ==
    IF k > Len(Grid) THEN names
    ELSE LET tile == Grid[k]
             take == /\ tile.cells \cap geom # {}
                     /\ ~InList(tile.Name, names)
                     /\ ~EpsgRejected(e, tile.EPSG)
         IN ScanTiles(IF take THEN Append(names, tile.Name) ELSE names,
                      geom, e, k + 1)

\* lines 34-43: the features of the layer from the read position j on
RECURSIVE ScanFeatures(_, _, _, _)
ScanFeatures(names, layer, e, j) ==
    IF j > Len(layer) THEN names
    ELSE ScanFeatures(ScanTiles(names, layer[j], e, 1), layer, e, j + 1)

\* sorted(): insertion of x into a sorted list
RECURSIVE Insert(_, _)
Insert(x, l) ==
    IF l = <<>> THEN <<x>>
    ELSE IF NameLess(x, Head(l)) THEN <<x>> \o l
    ELSE <<Head(l)>> \o Insert(x, Tail(l))

RECURSIVE sorted(_)
sorted(l) == IF l = <<>> THEN <<>> ELSE Insert(Head(l), sorted(Tail(l)))

\* a mutation of Return: the list as collected, unsorted
Return_Unsorted(l) == l

\* line 48: what the function returns
Return(l) == sorted(l)

\* lines 29-48, for a layer left at the read position cursor
TilesFromAoi(layer, cursor, e) ==
    Return(ScanFeatures(<<>>, layer, EpsgList(e), ResetReading(cursor)))

\* a call with a layer of which the caller has read some features
tiles_from_aoi ==
    /\ pc = "idle"
    /\ \E layer \in AoiLayers, e \in EpsgArgs :
         \E cursor \in 1..(Len(layer) + 1) :
            /\ aoi' = layer
            /\ epsg_arg' = e
            /\ tfa_results' = <<TilesFromAoi(layer, cursor, e)>>
    \* line 44: ResetReading
    /\ aoi_cursor' = ResetReading(Len(aoi') + 1)
    /\ op' = "tiles_from_aoi"
    /\ pc' = "done"
    /\ raised' = "none"
    /\ UNCHANGED <<opened, fs, dmVars, acqVars, nrbVars, geoVars, vrtVars,
                   dbVars, gbtVars, vecVars, cscVars, ovVars, jobVars, detVars>>

\* the call repeated with the same arguments
tiles_from_aoi_again ==
    /\ pc = "done"
    /\ op = "tiles_from_aoi"
    /\ Len(tfa_results) = 1
    /\ tfa_results' = Append(tfa_results, TilesFromAoi(aoi, aoi_cursor, epsg_arg))
    /\ aoi_cursor' = ResetReading(Len(aoi) + 1)
    /\ UNCHANGED <<pc, op, raised, opened, fs, aoi, epsg_arg,
                   dmVars, acqVars, nrbVars, geoVars, vrtVars,
                   dbVars, gbtVars, vecVars, cscVars, ovVars, jobVars, detVars>>

NextTilesFromAoi == tiles_from_aoi \/ tiles_from_aoi_again

SpecTilesFromAoi == Init /\ [][NextTilesFromAoi]_vars

\* -------------------------------------- tile_extraction main and no_aoi
\* the coordinates of extents
Coords == 1..MaxCoord

\* config / geocode_prms 'spacing'
Spacings == {1, 2}

\* EPSG codes of UTM zones
UtmCodes == {32632, 32633}

\* an extent with upper x bound x and lower y bound y
Extent(x, y) == [xmin |-> x - 1, xmax |-> x, ymin |-> y, ymax |-> y + 1]
Extents == {Extent(x, y) : x \in Coords, y \in Coords}

Max(S) == CHOOSE m \in S : \A x \in S : x <= m
Min(S) == CHOOSE m \in S : \A x \in S : m <= x

\* the items a resolver reads: the features of the AOI with their names and
\* own extents, or the scenes with their names, grown UTM extents
\* (lines 161-181) and UTM codes (line 185)
Items(n) == [1..n -> [ext : Extents, epsg : UtmCodes]]
Named(items) ==
    [j \in 1..Len(items) |->
        [name |-> j, ext |-> items[j].ext, epsg |-> items[j].epsg]]

\* config['aoi_geometry']: None, or a vector file with one projection
AoiConfigs ==
    {[kind |-> "None", items |-> <<>>]} \cup
    {[kind |-> "aoi", items |-> Named(f)] :
        f \in {g \in UNION {Items(n) : n \in 0..MaxEntries} :
                  \A j \in 1..Len(g) : g[j].epsg = g[1].epsg}}

\* ids: the scenes to process
SceneLists ==
    {[kind |-> "ids", items |-> Named(f)] :
        f \in UNION {Items(n) : n \in 0..MaxEntries}}

\* aoi.extent: the bounding box of the features of the layer
LayerExtent(items) ==
    LET I == 1..Len(items)
    IN [xmin |-> Min({items[j].ext.xmin : j \in I}),
        xmax |-> Max({items[j].ext.xmax : j \in I}),
        ymin |-> Min({items[j].ext.ymin : j \in I}),
        ymax |-> Max({items[j].ext.ymax : j \in I})]

\* a mutation of XmaxOrigin: half a pixel outwards
XmaxOrigin_Outward(ext, sp) == 2 * ext.xmax + sp

\* lines 122 / 182: ext['xmax'] - spacing / 2, in half units
XmaxOrigin(ext, sp) == 2 * ext.xmax - sp

\* lines 123 / 183: ext['ymin'] + spacing / 2, in half units
YminOrigin(ext, sp) == 2 * ext.ymin + sp

\* lines 124-127 / 184-187: the entry of one key
Entry(key, ext, epsg, sp) ==
    [key |-> key, ext |-> ext, epsg |-> epsg,
     xmax |-> XmaxOrigin(ext, sp), ymin |-> YminOrigin(ext, sp)]

\* geo_dict[key] = entry: a key keeps its place, a new key goes last
DictPut(d, e) ==
    IF \E i \in 1..Len(d) : d[i].key = e.key
    THEN [i \in 1..Len(d) |-> IF d[i].key = e.key THEN e ELSE d[i]]
    ELSE Append(d, e)

\* lines 129-130 / 188-189 (in half units)
Align(d) ==
    [xmax |-> Max({d[i].xmax : i \in 1..Len(d)}),
     ymin |-> Min({d[i].ymin : i \in 1..Len(d)}),
     set |-> TRUE]

\* lines 119-127: every tile gets the extent and the projection of the layer
RECURSIVE MainEntries(_, _, _, _)
MainEntries(d, items, sp, j) ==
    IF j > Len(items) THEN d
    ELSE MainEntries(DictPut(d, Entry(items[j].name, LayerExtent(items),
                                      items[1].epsg, sp)),
                     items, sp, j + 1)

\* lines 159-187: every scene gets its own extent and UTM code
RECURSIVE SceneEntries(_, _, _, _)
SceneEntries(d, items, sp, j) ==
    IF j > Len(items) THEN d
    ELSE SceneEntries(DictPut(d, Entry(items[j].name, items[j].ext,
                                       items[j].epsg, sp)),
                      items, sp, j + 1)

\* tile_extraction.main(config, spacing)
tile_extraction_main ==
    /\ pc = "idle"
    /\ \E cfg \in AoiConfigs, sp \in Spacings :
        /\ tx_in' = cfg
        /\ spacing' = sp
        /\ IF cfg.kind = "None"
           THEN \* line 134
                /\ raised' = "RuntimeError"
                /\ geo_dict' = <<>>
                /\ align_dict' = NoAlign
           ELSE IF cfg.items = <<>>
           THEN \* line 129: max([])
                /\ raised' = "ValueError"
                /\ geo_dict' = <<>>
                /\ align_dict' = NoAlign
           ELSE /\ raised' = "none"
                /\ geo_dict' = MainEntries(<<>>, cfg.items, sp, 1)
                /\ align_dict' = Align(geo_dict')
    /\ op' = "tile_extraction_main"
    /\ pc' = "resolved"
    /\ UNCHANGED <<opened, fs, steps, dmVars, acqVars, nrbVars, tfaVars, vrtVars,
                   dbVars, gbtVars, vecVars, cscVars, ovVars, jobVars, detVars>>

\* tile_extraction.no_aoi(ids, spacing)
no_aoi ==
    /\ pc = "idle"
    /\ \E ids \in SceneLists, sp \in Spacings :
        /\ tx_in' = ids
        /\ spacing' = sp
        /\ IF ids.items = <<>>
           THEN \* line 191: align_dict was never assigned
                /\ raised' = "UnboundLocalError"
                /\ geo_dict' = <<>>
                /\ align_dict' = NoAlign
           ELSE /\ raised' = "none"
                /\ geo_dict' = SceneEntries(<<>>, ids.items, sp, 1)
                /\ align_dict' = Align(geo_dict')
    /\ op' = "no_aoi"
    /\ pc' = "resolved"
    /\ UNCHANGED <<opened, fs, steps, dmVars, acqVars, nrbVars, tfaVars, vrtVars,
                   dbVars, gbtVars, vecVars, cscVars, ovVars, jobVars, detVars>>

\* --------------------------------------------------------- processor.main
\* a mutation of EpsgCheck: the check left out
EpsgCheck_Skipped(epsg_set) == "none"

\* processor.py lines 365-367
EpsgCheck(epsg_set) == IF Cardinality(epsg_set) # 1 THEN "RuntimeError" ELSE "none"

\* processor.py lines 370 (prepare_dem), 384-438 (geocode), 466-491
\* (nrb_processing), each with the EPSG code it is given
JobSteps(epsg) ==
    << [step |-> "prepare_dem", epsg |-> epsg],
       [step |-> "geocode", epsg |-> epsg],
       [step |-> "nrb_processing", epsg |-> epsg] >>

\* processor.main from the return of the resolver (line 362) on: geo_dict and
\* align_dict are what the resolver call left, an exception of the resolver
\* ends the job
processor_main ==
    /\ pc = "resolved"
    /\ LET epsg_set == {geo_dict[i].epsg : i \in 1..Len(geo_dict)}
       IN IF raised # "none"
          THEN UNCHANGED <<raised, steps>>
          ELSE IF EpsgCheck(epsg_set) # "none"
          THEN /\ raised' = EpsgCheck(epsg_set)
               /\ steps' = <<>>
          ELSE /\ raised' = "none"
               \* line 368: epsg_set.pop()
               /\ \E e \in epsg_set : steps' = JobSteps(e)
    /\ op' = "processor_main"
    /\ pc' = "done"
    /\ UNCHANGED <<opened, fs, tx_in, spacing, geo_dict, align_dict,
                   dmVars, acqVars, nrbVars, tfaVars, vrtVars,
                   dbVars, gbtVars, vecVars, cscVars, ovVars, jobVars, detVars>>

NextTileEx == tile_extraction_main \/ no_aoi \/ processor_main

SpecTileEx == Init /\ [][NextTileEx]_vars

\* ------------------------------------------- vrt_pixfun and create_rgb_vrt
\* the polarisations, and those of them that are co-polarisations
\* (ancillary.py line 221)
Pols == {"hh", "hv", "vh", "vv"}
CoPols == {"vv", "hh"}

\* the measurement files: a basename as the sequence of its parts
File(p) == <<"ers", "nrb", p, "g", "lin">>
Files == {File(p) : p \in Pols}

\* line 220: re.search('[hv]{2}', basename).group(), the first part of the
\* basename that is a polarisation
RECURSIVE search(_)
search(f) == IF Head(f) \in Pols THEN Head(f) ELSE search(Tail(f))

\* a ComplexSource that reads band 1 of the file f
Source(f) == [SourceFilename |-> f, PixelFunctionType |-> "none"]

\* lines 258-278: a ComplexSource whose SourceFilename is an embedded VRT with
\* one derived band of the pixel function px_fun over the file of src
Embedded(px_fun, src) ==
    [SourceFilename |-> src.SourceFilename, PixelFunctionType |-> px_fun]

\* a band of a VRT file
Band(color, subClass, fun, sources) ==
    [ColorInterp |-> color, subClass |-> subClass,
     PixelFunctionType |-> fun, sources |-> sources]

\* a VRT file with the bands b
Vrt(b) == [written |-> TRUE, bands |-> b]

\* the pixel functions the callers of vrt_pixfun name
PixFuns == {"mul", "div", "log10", "decibel"}

\* src as a list: a str is one dataset
SrcLists == UNION {[1..n -> Files] : n \in 0..MaxSources}

\* gdalbuildvrt(src, dst) (line 130) followed by lines 131-134 and 136-181:
\* the sources are mosaicked into one band, which becomes a derived band of
\* the pixel function fun
PixfunVrt(src, fun) ==
    Vrt(<< Band("none", "VRTDerivedRasterBand", fun,
                [i \in 1..Len(src) |-> Source(src[i])]) >>)

\* vrt_pixfun(src, dst, fun): no line looks at the number of sources; without
\* any source gdalbuildvrt writes no file and either it or etree.parse (line
\* 131) raises
vrt_pixfun ==
    /\ pc = "idle"
    /\ \E src \in SrcLists, fun \in PixFuns :
        /\ vrt_src' = src
        /\ vrt_fun' = fun
        /\ IF src = <<>>
           THEN /\ raised' \in {"RuntimeError", "OSError"}
                /\ vrt_out' = NoVrt
           ELSE /\ raised' = "none"
                /\ vrt_out' = PixfunVrt(src, fun)
    /\ op' = "vrt_pixfun"
    /\ pc' = "done"
    /\ UNCHANGED <<opened, fs, infiles, dmVars, acqVars, nrbVars, tfaVars, geoVars,
                   dbVars, gbtVars, vecVars, cscVars, ovVars, jobVars, detVars>>

\* l.reverse()
reverse(l) == [i \in 1..Len(l) |-> l[Len(l) + 1 - i]]

\* a mutation of CoPolSecond: the first polarisation is tested
CoPolSecond_First(pols) == pols[1] \in CoPols

\* line 221: pols[1] in ['vv', 'hh']  (the second element)
CoPolSecond(pols) == pols[2] \in CoPols

\* lines 220-223: the list in the order in which the bands are built
Ordered(files) ==
    LET pols == [i \in 1..Len(files) |-> search(files[i])]
    IN IF CoPolSecond(pols) THEN reverse(files) ELSE files

\* a mutation of Reciprocal: the first source is replaced
Reciprocal_First(sources) == [sources EXCEPT ![1] = Embedded("inv", @)]

\* lines 254-278: new_band.findall('ComplexSource')[1] gets the embedded VRT
\* with px_fun='inv'
Reciprocal(sources) == [sources EXCEPT ![2] = Embedded("inv", @)]

\* lines 229-284: gdalbuildvrt with separate=True gives one band per file;
\* band 3 is added as a derived band with PixelFunctionType 'mul' over copies
\* of the sources of the bands, the second of them made the reciprocal
RgbVrt(files) ==
    LET complex_src == [i \in 1..Len(files) |-> Source(files[i])]
    IN Vrt(<< Band("Red", "VRTRasterBand", "none", <<complex_src[1]>>),
              Band("Green", "VRTRasterBand", "none", <<complex_src[2]>>),
              Band("Blue", "VRTDerivedRasterBand", "mul",
                   Reciprocal(complex_src)) >>)

\* create_rgb_vrt(outname, infiles, ...); with one file line 221 raises
create_rgb_vrt ==
    /\ pc = "idle"
    /\ \E files \in UNION {[1..n -> Files] : n \in 1..2} :
        /\ vrt_src' = files
        /\ IF Len(files) < 2
           THEN /\ raised' = "IndexError"
                /\ infiles' = files
                /\ vrt_out' = NoVrt
           ELSE /\ raised' = "none"
                /\ infiles' = Ordered(files)
                /\ vrt_out' = RgbVrt(infiles')
    /\ op' = "create_rgb_vrt"
    /\ pc' = "done"
    /\ UNCHANGED <<opened, fs, vrt_fun, dmVars, acqVars, nrbVars, tfaVars, geoVars,
                   dbVars, gbtVars, vecVars, cscVars, ovVars, jobVars, detVars>>

NextVrt == vrt_pixfun \/ create_rgb_vrt

SpecVrt == Init /\ [][NextVrt]_vars

\* ------------------------------------- the 'decibel' pixel function
\* the values of an input pixel: no data, negative, zero, positive
DbInVals == {NaN, -10, 0, 1, 10, 100}

\* the values out_ar can hold before the call: GDAL hands the buffer over
\* with whatever it held
DbBufVals == {NaN, 0, 3}

\* np.log10 of a power of ten
log10(x) == CHOOSE k \in 0..2 : 10 ^ k = x

\* in_ar[0] > 0.0 (false for NaN)
Positive(x) == ~isnan(x) /\ x > 0

\* np.log10(in_ar[0], where=in_ar[0]>0.0, out=out_ar): where the condition is
\* false the output keeps the value it had
Log10Where(x, old) == IF Positive(x) THEN log10(x) ELSE old

\* np.multiply(..., 10.0, out=out_ar): every pixel of out_ar
Multiply10(v) == IF isnan(v) THEN NaN ELSE 10 * v

\* ancillary.py lines 143-145: the function VRT evaluates for a block
decibel ==
    /\ pc = "idle"
    /\ \E in_ar \in [Pixels -> DbInVals], out_ar \in [Pixels -> DbBufVals] :
        /\ db_in' = in_ar
        /\ db_buf' = out_ar
        /\ db_out' = [p \in Pixels |-> Multiply10(Log10Where(in_ar[p], out_ar[p]))]
    /\ op' = "decibel"
    /\ pc' = "done"
    /\ raised' = "none"
    /\ UNCHANGED <<opened, fs, dmVars, acqVars, nrbVars, tfaVars, geoVars, vrtVars,
                   gbtVars, vecVars, cscVars, ovVars, jobVars, detVars>>

NextDecibel == decibel

SpecDecibel == Init /\ [][NextDecibel]_vars

\* ---------------------------------------------------------- group_by_time
\* acquisition times, in seconds
Times == 0..MaxTime

\* a scene with its start and stop time
TimedScenes == {[start |-> t, stop |-> t + d] : t \in Times, d \in {1, 2}}

\* the time argument
TimeArgs == {0, 1}

\* identify_many(scenes, sortkey='start'): insertion of x by its start
RECURSIVE InsertByStart(_, _)
InsertByStart(x, l) ==
    IF l = <<>> THEN <<x>>
    ELSE IF x.start < Head(l).start THEN <<x>> \o l
    ELSE <<Head(l)>> \o InsertByStart(x, Tail(l))

RECURSIVE SortByStart(_)
SortByStart(l) ==
    IF l = <<>> THEN <<>> ELSE InsertByStart(Head(l), SortByStart(Tail(l)))

\* line 44: diff = (stop_pred - start).total_seconds()
Diff(pred, scene) == pred.stop - scene.start

\* lines 41-49: the loop from scene i on; the open group is the last one
RECURSIVE GroupLoop(_, _, _, _)
GroupLoop(gs, scenes, time, i) ==
    IF i > Len(scenes) THEN gs
    ELSE IF Diff(scenes[i - 1], scenes[i]) <= time
    THEN GroupLoop([gs EXCEPT ![Len(gs)] = Append(@, scenes[i])],
                   scenes, time, i + 1)
    ELSE GroupLoop(Append(gs, <<scenes[i]>>), scenes, time, i + 1)

\* lines 33-50
GroupByTime(scenes, time) ==
    IF Len(scenes) < 2 THEN <<scenes>>
    ELSE GroupLoop(<< <<scenes[1]>> >>, scenes, time, 2)

group_by_time ==
    /\ pc = "idle"
    /\ \E l \in UNION {[1..n -> TimedScenes] : n \in 0..MaxScenes},
          time \in TimeArgs :
        /\ gbt_scenes' = SortByStart(l)
        /\ gbt_time' = time
        /\ groups' = GroupByTime(gbt_scenes', time)
    /\ op' = "group_by_time"
    /\ pc' = "done"
    /\ raised' = "none"
    /\ UNCHANGED <<opened, fs, dmVars, acqVars, nrbVars, tfaVars, geoVars, vrtVars,
                   dbVars, vecVars, cscVars, ovVars, jobVars, detVars>>

NextGroupByTime == group_by_time

SpecGroupByTime == Init /\ [][NextGroupByTime]_vars

\* ----------------------------------------------------- vec_from_srccoords
\* longitudes, in tenths of a degree
Lons == 0..MaxLon

\* the footprint of a scene: four corners (lon, lat); a and b are the
\* longitudes of the first and the last corner
Footprint(a, b) ==
    << [lon |-> a, lat |-> 0], [lon |-> a, lat |-> 1],
       [lon |-> b, lat |-> 1], [lon |-> b, lat |-> 0] >>
Footprints == {Footprint(a, b) : a \in Lons, b \in Lons}

\* math.isclose(a, b, abs_tol=0.1) for tenths of a degree
isclose(a, b) == a - b <= 1 /\ b - a <= 1

\* extract.py lines 198-202: which footprint comes first, or "none"
JoinedBorder(cl) ==
    IF isclose(cl[1][1].lon, cl[2][4].lon) THEN <<cl[2], cl[1]>>
    ELSE IF isclose(cl[2][1].lon, cl[1][4].lon) THEN <<cl[1], cl[2]>>
    ELSE <<>>

\* lines 212-216 and 224-228: the ring of the polygon
Polygon(c1, c2) == <<c1[1], c1[2], c2[3], c2[4], c1[1]>>

\* extract.py lines 197-230.  In the else branch of line 203 the RuntimeError
\* is built but not raised, and line 207 reads c1, which was never assigned
vec_from_srccoords ==
    /\ pc = "idle"
    /\ \E cl \in UNION {[1..n -> Footprints] : n \in 1..2} :
        /\ coord_list' = cl
        /\ IF Len(cl) = 2
           THEN IF JoinedBorder(cl) = <<>>
                THEN /\ raised' = "UnboundLocalError"
                     /\ wkt' = <<>>
                ELSE /\ raised' = "none"
                     /\ wkt' = Polygon(JoinedBorder(cl)[1], JoinedBorder(cl)[2])
           ELSE /\ raised' = "none"
                /\ wkt' = Polygon(cl[1], cl[1])
    /\ op' = "vec_from_srccoords"
    /\ pc' = "done"
    /\ UNCHANGED <<opened, fs, dmVars, acqVars, nrbVars, tfaVars, geoVars, vrtVars,
                   dbVars, gbtVars, cscVars, ovVars, jobVars, detVars>>

NextVecFromSrccoords == vec_from_srccoords

SpecVecFromSrccoords == Init /\ [][NextVecFromSrccoords]_vars

\* ------------------------------------------------ check_scene_consistency
\* ancillary.py line 73: the attributes compared, in this order
Attrs == <<"sensor", "acquisition_mode", "product", "frameNumber">>

\* the scenes, by the values of their attributes
AttrScenes ==
    [sensor : {"ERS1", "ERS2"}, acquisition_mode : {"IMP", "IMS"},
     product : {"PRI", "SLC"}, frameNumber : {1, 2}]

\* line 74: set([getattr(x, attr) for x in scenes])
Values(scenes, attr) == {scenes[k][attr] : k \in 1..Len(scenes)}

\* lines 73-77: the first attribute whose set of values has not exactly one
\* element, from attribute a on, or "none"
RECURSIVE FirstInconsistent(_, _)
FirstInconsistent(scenes, a) ==
    IF a > Len(Attrs) THEN "none"
    ELSE IF Cardinality(Values(scenes, Attrs[a])) # 1 THEN Attrs[a]
    ELSE FirstInconsistent(scenes, a + 1)

check_scene_consistency ==
    /\ pc = "idle"
    /\ \E scenes \in UNION {[1..n -> AttrScenes] : n \in 0..MaxScenes} :
        /\ csc_scenes' = scenes
        /\ csc_attr' = FirstInconsistent(scenes, 1)
        /\ raised' = IF csc_attr' = "none" THEN "none" ELSE "RuntimeError"
    /\ op' = "check_scene_consistency"
    /\ pc' = "done"
    /\ UNCHANGED <<opened, fs, dmVars, acqVars, nrbVars, tfaVars, geoVars, vrtVars,
                   dbVars, gbtVars, vecVars, ovVars, jobVars, detVars>>

NextCheckSceneConsistency == check_scene_consistency

SpecCheckSceneConsistency == Init /\ [][NextCheckSceneConsistency]_vars

\* ------------------------------- nrb_processing: the tile overlap loop
\* the scenes argument: scene k with whether its data mask overlaps the tile
\* (line 105) and whether its data mask files exist already (line 88)
OverlapScenes(n) ==
    [1..n -> [overlaps : BOOLEAN, mask_exists : BOOLEAN]]

\* processor.py lines 72-76: identify_many and one dataset list per scene
Identified(scenes) ==
    [k \in 1..Len(scenes) |->
        [scene |-> k, overlaps |-> scenes[k].overlaps,
         mask_exists |-> scenes[k].mask_exists]]

\* line 86: snap_dm_ras, the data mask path of a dataset
snap_dm_ras(d) == [datamask |-> d.scene]

\* del l[i], for the index i of the code (from 0)
Del(l, i) == [k \in 1..(Len(l) - 1) |-> IF k <= i THEN l[k] ELSE l[k + 1]]

\* a mutation of Retain: the mask path is not recorded
Retain_Skip(masks, m) == masks

\* line 111: snap_dm_tile_overlap.append(snap_dm_ras)
Retain(masks, m) == Append(masks, m)

\* lines 72-82: up to the loop
nrb_overlap_begin ==
    /\ pc = "idle"
    /\ \E n \in 0..MaxScenes : \E scenes \in OverlapScenes(n) :
        /\ ov_scenes' = scenes
        /\ ov_ids' = [k \in 1..n |-> k]
        /\ ov_datasets' = Identified(scenes)
    /\ ov_i' = 0
    /\ snap_dm_tile_overlap' = <<>>
    /\ nrbdir' = FALSE
    /\ op' = "nrb_overlap"
    /\ IF Len(ov_datasets') = 0
       THEN \* line 78
            raised' = "RuntimeError" /\ pc' = "done"
       ELSE raised' = "none" /\ pc' = "loop"
    /\ UNCHANGED <<opened, fs, dmVars, acqVars, nrbVars, tfaVars, geoVars, vrtVars,
                   dbVars, gbtVars, vecVars, cscVars, jobVars, detVars>>

\* lines 83-113: one iteration of the while loop
nrb_overlap_iter ==
    /\ pc = "loop"
    /\ ov_i < Len(ov_datasets)
    /\ LET d == ov_datasets[ov_i + 1]
       IN IF ~d.overlaps
          THEN \* lines 106-108: inter is None
               /\ ov_ids' = Del(ov_ids, ov_i)
               /\ ov_datasets' = Del(ov_datasets, ov_i)
               /\ UNCHANGED <<ov_i, snap_dm_tile_overlap>>
          ELSE \* lines 88-99 (the mask files are written if missing), 111-112
               /\ ov_datasets' = [ov_datasets EXCEPT ![ov_i + 1].mask_exists = TRUE]
               /\ snap_dm_tile_overlap' = Retain(snap_dm_tile_overlap, snap_dm_ras(d))
               /\ ov_i' = ov_i + 1
               /\ UNCHANGED ov_ids
    /\ UNCHANGED <<pc, op, raised, ov_scenes, nrbdir>>
    /\ UNCHANGED <<opened, fs, dmVars, acqVars, nrbVars, tfaVars, geoVars, vrtVars,
                   dbVars, gbtVars, vecVars, cscVars, jobVars, detVars>>

\* lines 83 and 115-132: the loop condition fails; the error of line 116 or
\* the output directory of line 132
nrb_overlap_end ==
    /\ pc = "loop"
    /\ ~(ov_i < Len(ov_datasets))
    /\ IF Len(ov_ids) = 0
       THEN raised' = "RuntimeError" /\ nrbdir' = FALSE
       ELSE raised' = "none" /\ nrbdir' = TRUE
    /\ pc' = "done"
    /\ UNCHANGED <<op, ov_scenes, ov_ids, ov_datasets, ov_i, snap_dm_tile_overlap>>
    /\ UNCHANGED <<opened, fs, dmVars, acqVars, nrbVars, tfaVars, geoVars, vrtVars,
                   dbVars, gbtVars, vecVars, cscVars, jobVars, detVars>>

NextOverlap == nrb_overlap_begin \/ nrb_overlap_iter \/ nrb_overlap_end

\* a call of nrb_processing runs on until it returns or raises
SpecOverlap == Init /\ [][NextOverlap]_vars /\ WF_vars(NextOverlap)

\* ------------------------- the functions that are handed lists of the caller
\* processor.py lines 276-279 and 295-299: nrb_processing hands its lists
\* measure_paths and write_options['acquisitionImage'] to these two
NextCallerLists == create_rgb_vrt \/ create_acq_id_image

SpecCallerLists == Init /\ [][NextCallerLists]_vars

\* ------------------------- processor.main: the geocoding and the NRB loop
\* config['mode'] and the flags of lines 328-333
Modes == {"all", "snap", "nrb"}
snap_flag(mode) == mode # "nrb"
nrb_flag(mode) == mode # "snap"

\* what happens for a scene in the geocoding loop: it was processed before
\* and is skipped (line 416), geocode returns, geocode raises (line 433), or
\* the DEM of the scene cannot be cropped (lines 394-409, outside the try)
GeocodeCases == {"skip", "ok", "raise", "dem_error"}

\* the number of scenes the geocoding loop has handled
Geocoded == Cardinality({k \in 1..Len(job_log) : job_log[k].call = "geocode"})

\* the number of nrb_processing calls made
NrbCalls == Cardinality({k \in 1..Len(job_log) : job_log[k].call = "nrb_processing"})

\* where main goes on after the geocoding loop (line 466)
AfterGeocoding == IF nrb_flag(job_mode) THEN "nrb" ELSE "done"

\* a mutation of GeocodeExcept: the loop goes on with the next scene
GeocodeExcept_Continue(next) == next

\* lines 433-436: the handler logs the error and returns from main
GeocodeExcept(next) == "done"

\* lines 322-383: configuration and scene selection
main_select ==
    /\ pc = "idle"
    /\ \E mode \in Modes, n \in 0..MaxScenes, t \in {1, 2} :
       \E scenes \in [1..n -> GeocodeCases] :
        /\ job_mode' = mode
        /\ job_scenes' = scenes
        /\ job_tiles' = t
        /\ pc' = IF snap_flag(mode) THEN "geocode"
                 ELSE IF nrb_flag(mode) THEN "nrb" ELSE "done"
    /\ job_log' = <<>>
    /\ op' = "main"
    /\ raised' = "none"
    /\ UNCHANGED <<opened, fs, dmVars, acqVars, nrbVars, tfaVars, geoVars, vrtVars,
                   dbVars, gbtVars, vecVars, cscVars, ovVars, detVars>>

\* lines 384-438: one iteration of the geocoding loop, or its end
main_geocode ==
    /\ pc = "geocode"
    /\ IF Geocoded = Len(job_scenes)
       THEN /\ pc' = AfterGeocoding
            /\ UNCHANGED <<job_log, raised>>
       ELSE LET i == Geocoded + 1
                case == job_scenes[i]
                next == IF i = Len(job_scenes) THEN AfterGeocoding ELSE "geocode"
            IN /\ job_log' = Append(job_log,
                                    [call |-> "geocode", scene |-> i, tile |-> 0,
                                     result |-> case])
               /\ raised' = IF case = "dem_error" THEN "RuntimeError" ELSE "none"
               /\ pc' = IF case = "dem_error" THEN "done"
                        ELSE IF case = "raise" THEN GeocodeExcept(next)
                        ELSE next
    /\ UNCHANGED <<op, job_mode, job_scenes, job_tiles>>
    /\ UNCHANGED <<opened, fs, dmVars, acqVars, nrbVars, tfaVars, geoVars, vrtVars,
                   dbVars, gbtVars, vecVars, cscVars, ovVars, detVars>>

\* lines 466-491: one call of nrb_processing in the loops over the tiles and
\* the scenes, or their end; an exception of nrb_processing is not caught
main_nrb ==
    /\ pc = "nrb"
    /\ IF NrbCalls = job_tiles * Len(job_scenes)
       THEN /\ pc' = "done"
            /\ UNCHANGED <<job_log, raised>>
       ELSE \E result \in {"ok", "raise"} :
            /\ job_log' = Append(job_log,
                                 [call |-> "nrb_processing",
                                  scene |-> (NrbCalls % Len(job_scenes)) + 1,
                                  tile |-> (NrbCalls \div Len(job_scenes)) + 1,
                                  result |-> result])
            /\ raised' = IF result = "raise" THEN "RuntimeError" ELSE "none"
            /\ pc' = IF result = "raise" THEN "done" ELSE "nrb"
    /\ UNCHANGED <<op, job_mode, job_scenes, job_tiles>>
    /\ UNCHANGED <<opened, fs, dmVars, acqVars, nrbVars, tfaVars, geoVars, vrtVars,
                   dbVars, gbtVars, vecVars, cscVars, ovVars, detVars>>

NextJob == main_select \/ main_geocode \/ main_nrb

SpecJob == Init /\ [][NextJob]_vars

\* ------------------------- stacparser.product_json: the annotation assets
\* mapping.py lines 44-48: SAMPLE_MAP['-dm.tif']['values']
SAMPLE_MAP_dm ==
    << [value |-> 0, summary |-> "not layover, nor shadow"],
       [value |-> 1, summary |-> "layover"],
       [value |-> 2, summary |-> "shadow"],
       [value |-> 3, summary |-> "layover and shadow"],
       [value |-> 4, summary |-> "ocean water"] >>

\* stacparser.py lines 209-210: the class names without 'layover and shadow'
Samples ==
    LET kept == SelectSeq(SAMPLE_MAP_dm, LAMBDA e : e.summary # "layover and shadow")
    IN [k \in 1..Len(kept) |-> kept[k].summary]

\* stacparser.py lines 206-214: the band-count check of a data mask file
BandCountCheck(file) ==
    IF Len(file.bands) > 1 /\ Len(file.bands) # Len(Samples)
    THEN "RuntimeError"
    ELSE "none"

\* extract.py lines 308-311 and 442-458: meta['source'], one entry per source
\* scene in the order of the list handed to meta_dict, with its file name
MetaSource(ss) == [i \in 1..Len(ss) |-> [filename |-> ss[i]]]

\* stacparser.py lines 222-226: the values of the acquisition id asset, value
\* i+1 for the i-th source with its base name without '.SAFE' and '.zip'
StacIdValues(source) ==
    [i \in 1..Len(source) |-> [value |-> i, summary |-> Clean(source[i].filename)]]

\* ------------------------- create_data_mask: the backscatter file it reads
\* the polarisations of the backscatter files among src_files
PolLists == {<<"VV">>, <<"VH">>, <<"VV", "VH">>}

\* the backscatter files of a scene, one per polarisation, with their rasters
\* the layover and shadow values drawn here
DetLsVals == {NaN, 0, 1}

\* lines 362-363: the set of the polarisations named by the files
pols(files) == {files[k].pol : k \in 1..Len(files)}

\* lines 364-365: the files of the polarisation pols[0]
snap_gamma0(files, pol) == SelectSeq(files, LAMBDA f : f.pol = pol)

\* the files and the rasters of a scene, before create_data_mask runs on them
dm_inputs ==
    /\ pc = "idle"
    /\ \E ps \in PolLists, ls \in [Pixels -> DetLsVals], va \in [Pixels -> ValidVals] :
       \E ga \in [1..Len(ps) -> [Pixels -> GammaVals]] :
        /\ pol_gamma0' = [k \in 1..Len(ps) |-> [pol |-> ps[k], arr |-> ga[k]]]
        /\ det_ls' = ls
        /\ det_valid' = va
    /\ dm_runs' = <<>>
    /\ op' = "create_data_mask_runs"
    /\ pc' = "runs"
    /\ raised' = "none"
    /\ UNCHANGED <<opened, fs, dmVars, acqVars, nrbVars, tfaVars, geoVars, vrtVars,
                   dbVars, gbtVars, vecVars, cscVars, ovVars, jobVars>>

\* lines 362-415 without a water body mask: one run of create_data_mask on
\* the files; pols[0] is the first element of a list made from a set of
\* strings, whose order changes from one interpreter run to the next
dm_run ==
    /\ pc = "runs"
    /\ \E pol \in pols(pol_gamma0) :
        LET ga == snap_gamma0(pol_gamma0, pol)[1].arr
            fused == [p \in Pixels |->
                        FusePixel("None", 0, det_ls[p], det_valid[p], ga[p])]
        IN dm_runs' = Append(dm_runs, [pol |-> pol, out_arr |-> fused])
    /\ pc' = IF Len(dm_runs) = 1 THEN "done" ELSE "runs"
    /\ UNCHANGED <<op, raised, pol_gamma0, det_ls, det_valid>>
    /\ UNCHANGED <<opened, fs, dmVars, acqVars, nrbVars, tfaVars, geoVars, vrtVars,
                   dbVars, gbtVars, vecVars, cscVars, ovVars, jobVars>>

NextDeterminism == dm_inputs \/ dm_run

SpecDeterminism == Init /\ [][NextDeterminism]_vars

\* ------------------------------------------------------------ whole model
Next == create_data_mask \/ create_acq_id_image \/ nrb_processing
        \/ tiles_from_aoi \/ tiles_from_aoi_again
        \/ tile_extraction_main \/ no_aoi \/ processor_main
        \/ vrt_pixfun \/ create_rgb_vrt
        \/ decibel
        \/ group_by_time
        \/ vec_from_srccoords
        \/ check_scene_consistency
        \/ nrb_overlap_begin \/ nrb_overlap_iter \/ nrb_overlap_end
        \/ main_select \/ main_geocode \/ main_nrb
        \/ dm_inputs \/ dm_run

Spec == Init /\ [][Next]_vars

\* =================================================================== claims
Called(f) == pc = "done" /\ op = f

\* create_data_mask ran to its end
DmRan == Called("create_data_mask") /\ raised = "none"

\* pixel p is flagged water by the water body mask of the call
IsWater(p) == wbm # "None" /\ arr_wbm[p] = 1

\* the class of pixel p after geometry and water: 4 where water, else the
\* layover/shadow code as read
AfterWater(p) == IF IsWater(p) THEN 4 ELSE arr_snap_dm[p]

\* ---------------------------------------------------------------------- C1
\* C1: with two source scenes, every pixel where both scenes' validity masks
\* equal 1 carries the index of the later scene (2), not that of the earlier
\* scene (1).
C1_LaterSceneWins ==
    (Called("create_acq_id_image") /\ Len(scenes_arg) = 2) =>
        \A p \in Pixels :
            (\A i \in 1..2 : masks_arg[i].arr[p] = 1) => acq_arr[p] = 2

\* ---------------------------------------------------------------------- C2
\* C2: for any number N >= 1 of scenes and masks, every output pixel is nodata
\* 255 or a 1-based index i in 1..N such that mask i (as the call holds the
\* masks after its re-ordering) is 1 there, and it is 255 exactly when no
\* mask is 1 there.
C2_IndexOrNodata ==
    Called("create_acq_id_image") =>
        \A p \in Pixels :
            /\ acq_arr[p] = out_nodata
                 <=> ~ \E i \in 1..Len(valid_mask_list) : valid_mask_list[i].arr[p] = 1
            /\ acq_arr[p] # out_nodata =>
                 /\ acq_arr[p] \in 1..Len(src_scenes)
                 /\ valid_mask_list[acq_arr[p]].arr[p] = 1

\* ---------------------------------------------------------------------- C3
\* C3: with exactly two scenes and two masks, in whichever order each list is
\* given, after the re-ordering the scenes ascend by start time, mask k is the
\* mask whose start timestamp is the start of scene k, and a mask list that
\* was already chronological is not swapped.
C3_MasksFollowScenes ==
    (Called("create_acq_id_image") /\ Len(scenes_arg) = 2) =>
        /\ src_scenes[1].start < src_scenes[2].start
        /\ \A k \in 1..2 : valid_mask_list[k].start = src_scenes[k].start
        /\ masks_arg[1].start < masks_arg[2].start => valid_mask_list = masks_arg

\* ---------------------------------------------------------------------- C4
\* C4: the provenance tag has one entry per source scene, entry i names the
\* cleaned file name (no '.zip', no '.SAFE') of scene i with index i, and i
\* is the value the raster carries on the valid pixels of the i-th mask that
\* are valid in no other mask.
C4_TagMatchesRaster ==
    Called("create_acq_id_image") =>
        /\ Len(tag) = Len(scenes_arg)
        /\ \A i \in 1..Len(tag) :
            /\ tag[i].idx = i
            /\ tag[i].src.stem = src_scenes[i].stem
            /\ \A j \in 1..Len(tag[i].src.suffix) :
                   tag[i].src.suffix[j] \notin {".zip", ".SAFE"}
        /\ \A i \in 1..Len(scenes_arg) : \A p \in Pixels :
               (/\ valid_mask_list[i].arr[p] = 1
                /\ \A j \in 1..Len(scenes_arg) :
                       j # i => valid_mask_list[j].arr[p] # 1)
                   => acq_arr[p] = i

\* ---------------------------------------------------------------------- C5
\* C5: with a water mask, every pixel that is valid (validity 1) and flagged
\* water has fused class ocean water (4), whatever its layover/shadow code and
\* its backscatter value; the written file shows it as water, not as shadow.
C5_WaterStaysWater ==
    (DmRan /\ wbm # "None") =>
        \A p \in Pixels :
            (arr_snap_valid[p] = 1 /\ arr_wbm[p] = 1) =>
                /\ out_arr[p] = 4
                /\ out_format = "single-layer" => fs.dm.bands[1].arr[p] = 4
                /\ out_format = "None" =>
                       fs.dm.bands[4].arr[p] = 1 /\ fs.dm.bands[3].arr[p] = 0

\* a valid water pixel that geometry flags shadow and whose backscatter is
\* no-data came out as ocean water
C5_Witness ==
    /\ DmRan
    /\ wbm # "None"
    /\ \E p \in Pixels :
        /\ arr_snap_valid[p] = 1
        /\ arr_wbm[p] = 1
        /\ arr_snap_dm[p] = 2
        /\ isnan(arr_snap_gamma0[p])
        /\ out_arr[p] = 4

\* ---------------------------------------------------------------------- C6
\* C6: every pixel that is not valid in the validity raster, be it NaN or a
\* stored 0, has fused class nodata (255).
C6_InvalidIsNodata ==
    DmRan => \A p \in Pixels : arr_snap_valid[p] # 1 => out_arr[p] = out_nodata

\* ---------------------------------------------------------------------- C7
\* C7: a pixel with validity 1, backscatter no-data and not water gets class
\* shadow (2) whatever its layover/shadow code; a pixel with validity 1 and a
\* backscatter value keeps the class it had after the water overwrite.
C7_ShadowExtension ==
    DmRan =>
        \A p \in Pixels :
            arr_snap_valid[p] = 1 =>
                IF isnan(arr_snap_gamma0[p])
                THEN ~IsWater(p) => out_arr[p] = 2
                ELSE AfterWater(p) \in 0..4 => out_arr[p] = AfterWater(p)

\* a valid layover pixel without backscatter and not water came out as shadow,
\* next to a valid pixel with backscatter that kept its layover&shadow code
C7_Witness ==
    /\ DmRan
    /\ \E p \in Pixels :
        /\ arr_snap_valid[p] = 1
        /\ isnan(arr_snap_gamma0[p])
        /\ ~IsWater(p)
        /\ arr_snap_dm[p] = 1
        /\ out_arr[p] = 2
    /\ \E p \in Pixels :
        /\ arr_snap_valid[p] = 1
        /\ ~isnan(arr_snap_gamma0[p])
        /\ arr_snap_dm[p] = 3
        /\ out_arr[p] = 3

\* ---------------------------------------------------------------------- C8
\* C8: in multi-layer mode, for every band and pixel the band value is 255 iff
\* the fused class is 255; otherwise it is 1 iff the band is 'not layover, nor
\* shadow' and the class is 0, or 'layover' and the class is 1 or 3, or
\* 'shadow' and the class is 2 or 3, or 'ocean water' and the class is 4, and
\* 0 in all other cases.
C8_BandEncoding ==
    (DmRan /\ out_format = "None") =>
        \A k \in 1..Len(fs.dm.bands) : \A p \in Pixels :
            LET name == fs.dm.bands[k].name
                v == fs.dm.bands[k].arr[p]
                c == out_arr[p]
                one == \/ name = "not layover, nor shadow" /\ c = 0
                       \/ name = "layover" /\ c \in {1, 3}
                       \/ name = "shadow" /\ c \in {2, 3}
                       \/ name = "ocean water" /\ c = 4
            IN /\ v = 255 <=> c = 255
               /\ c # 255 => v = (IF one THEN 1 ELSE 0)

\* a multi-layer file with four bands in which a layover&shadow pixel is 1 in
\* the layover and in the shadow band, next to a nodata pixel
C8_Witness ==
    /\ DmRan
    /\ out_format = "None"
    /\ Len(fs.dm.bands) = 4
    /\ \E p \in Pixels :
        /\ out_arr[p] = 3
        /\ fs.dm.bands[2].arr[p] = 1
        /\ fs.dm.bands[3].arr[p] = 1
        /\ fs.dm.bands[1].arr[p] = 0
    /\ \E p \in Pixels :
        /\ out_arr[p] = 255
        /\ \A k \in 1..4 : fs.dm.bands[k].arr[p] = 255

\* ---------------------------------------------------------------------- C9
\* C9: a call with an out_format that is neither 'single-layer' nor
\* 'multi-layer' fails with an error before any raster is read or written: no
\* data mask file exists afterwards.
C9_BadFormatFailsEarly ==
    (Called("create_data_mask")
        /\ out_format \notin {"None", "single-layer", "multi-layer"}) =>
            /\ raised = "RuntimeError"
            /\ opened = {}
            /\ out_arr = <<>>
            /\ ~fs.dm.exists

\* the call with out_format 'geotiff' ended with the error
C9_Witness ==
    /\ Called("create_data_mask")
    /\ out_format = "geotiff"
    /\ raised = "RuntimeError"
    /\ ~fs.dm.exists

\* --------------------------------------------------------------------- C10
\* C10: a call with out_format = 'multi-layer' given explicitly does not raise
\* and writes the multi-band file that a call with out_format omitted writes.
C10_MultiLayerAccepted ==
    (Called("create_data_mask") /\ out_format = "multi-layer") =>
        /\ raised = "none"
        /\ fs.dm.exists
        /\ fs.dm = DataMaskFile("multi-layer", wbm, out_arr)

\* ------------------------------------------------- claims: nrb_processing
\* run i of nrb_processing got as far as the data mask step (line 283)
ReachedDataMask(i) ==
    nrb_log[i].npols = 2 /\ nrb_log[i].raised # "OSError"

\* the band names of a list name the ocean water class
HasOceanWater(bands) == \E k \in 1..Len(bands) : bands[k] = "ocean water"

\* C11: a run without water body mask (wbm None) and with the built-in DEM
\* GETASSE30 completes the data mask step: it raises nothing and writes a data
\* mask whose classes leave out ocean water.
C11_NoWbmStillMasks ==
    \A i \in 1..Len(nrb_log) :
        (/\ ReachedDataMask(i)
         /\ nrb_log[i].wbm = "None"
         /\ nrb_log[i].dem_type = "GETASSE30")
        => /\ nrb_log[i].raised = "none"
           /\ "dm" \in nrb_log[i].wrote
           /\ ~HasOceanWater(nrb_dm_bands[nrb_log[i].dir])

\* C12: a run with a DEM type other than GETASSE30 and without water body
\* mask (wbm None, as main passes it when the file is missing) fails with the
\* dedicated FileNotFoundError and writes no data mask.
C12_MissingWbmDedicatedError ==
    \A i \in 1..Len(nrb_log) :
        (/\ ReachedDataMask(i)
         /\ nrb_log[i].wbm = "None"
         /\ nrb_log[i].dem_type # "GETASSE30")
        => /\ nrb_log[i].raised = "FileNotFoundError"
           /\ "dm" \notin nrb_log[i].wrote

\* C13: a run that repeats a completed run for the same tile and scene set is
\* a no-op: it writes neither the data mask nor the acquisition id raster
\* again and produces no second product directory.
C13_RerunIsNoOp ==
    \A i \in 2..Len(nrb_log) :
        (/\ nrb_log[i - 1].raised = "none"
         /\ nrb_log[i].dem_type = nrb_log[i - 1].dem_type
         /\ nrb_log[i].wbm = nrb_log[i - 1].wbm
         /\ nrb_log[i].npols = nrb_log[i - 1].npols)
        => /\ nrb_log[i].wrote \cap {"dm", "id"} = {}
           /\ nrb_log[i].dir = nrb_log[i - 1].dir
           /\ Cardinality(nrb_dirs) = 1

\* ------------------------------------------------- claims: tiles_from_aoi
\* the names the grid holds for the AOI layer: the tiles that intersect a
\* feature and whose EPSG code is allowed
WantedNames ==
    {Grid[k].Name : k \in {n \in 1..Len(Grid) :
        /\ \E j \in 1..Len(aoi) : Grid[n].cells \cap aoi[j] # {}
        /\ epsg_arg.kind = "None" \/ Grid[n].EPSG \in epsg_arg.codes}}

\* l is in strictly ascending order of names
Ascending(l) == \A i \in 1..(Len(l) - 1) : NameLess(l[i], l[i + 1])

\* C14: every list tiles_from_aoi returns is in strictly ascending order (so
\* sorted and free of duplicates) and holds exactly the names of the grid
\* tiles that intersect a feature of the AOI and have an allowed EPSG code;
\* a repeated call and a call with the features in any other order return
\* the same list.
C14_SortedUniqueTiles ==
    Called("tiles_from_aoi") =>
        /\ \A r \in 1..Len(tfa_results) :
              /\ Ascending(tfa_results[r])
              /\ {tfa_results[r][i] : i \in 1..Len(tfa_results[r])} = WantedNames
              /\ tfa_results[r] = tfa_results[1]
        /\ \A o \in Orders(Len(aoi)) :
              TilesFromAoi([j \in 1..Len(aoi) |-> aoi[o[j]]], 1, epsg_arg)
                  = tfa_results[1]

\* a repeated call whose AOI has two features that share a tile and reach
\* tiles out of file order, with an EPSG code filtered away
C14_Witness ==
    /\ Called("tiles_from_aoi")
    /\ Len(tfa_results) = 2
    /\ Len(aoi) >= 2
    /\ Len(tfa_results[1]) >= 2
    /\ epsg_arg.kind # "None"
    /\ Cardinality(WantedNames) < Cardinality(
          {Grid[n].Name : n \in {k \in 1..Len(Grid) :
              \E j \in 1..Len(aoi) : Grid[k].cells \cap aoi[j] # {}}})
    /\ \E j \in 1..Len(aoi) : Cardinality(aoi[j]) >= 2

\* ------------------------------ claims: tile resolution and processor.main
\* a resolver has returned geo_dict and align_dict
Resolved == pc = "resolved" /\ raised = "none"

\* twice the coordinate c, to compare with the half units of align_dict
Half(c) == 2 * c

\* C15 as stated: the alignment origin lies inside the extent of every entry:
\* align.xmax <= the entry's xmax and align.ymin >= the entry's ymin.
C15_InsideEveryExtent ==
    Resolved =>
        \A i \in 1..Len(geo_dict) :
            /\ align_dict.xmax <= Half(geo_dict[i].ext.xmax)
            /\ align_dict.ymin >= Half(geo_dict[i].ext.ymin)

\* C15 amended: the alignment origin lies inside the overall extent of the
\* entries: align.xmax <= the largest xmax and align.ymin >= the smallest ymin
\* of the entries' extents; from tile_extraction.main, whose entries all carry
\* the extent of the AOI, it lies inside the extent of every entry.
C15_InsideOverallExtent ==
    Resolved =>
        LET I == 1..Len(geo_dict)
        IN /\ align_dict.xmax <= Half(Max({geo_dict[i].ext.xmax : i \in I}))
           /\ align_dict.ymin >= Half(Min({geo_dict[i].ext.ymin : i \in I}))
           /\ op = "tile_extraction_main" =>
                 \A i \in I :
                     /\ align_dict.xmax <= Half(geo_dict[i].ext.xmax)
                     /\ align_dict.ymin >= Half(geo_dict[i].ext.ymin)

\* no_aoi has returned for two scenes and the origin lies right of the extent
\* of one and below the extent of the other
C15_Witness ==
    /\ Resolved
    /\ op = "no_aoi"
    /\ Len(geo_dict) = 2
    /\ \E i \in 1..2 : align_dict.xmax > Half(geo_dict[i].ext.xmax)
    /\ \E i \in 1..2 : align_dict.ymin < Half(geo_dict[i].ext.ymin)

\* the entry of geo_dict for the key k
EntryOf(k) == geo_dict[CHOOSE i \in 1..Len(geo_dict) : geo_dict[i].key = k]

\* C16: the alignment origin is the largest xmax of the entries' extents minus
\* half the spacing and the smallest ymin plus half the spacing, and the
\* extent of each entry is the own extent of its tile or scene.
C16_OriginFromOwnExtents ==
    Resolved =>
        LET J == 1..Len(tx_in.items)
        IN /\ align_dict.xmax
                = Half(Max({tx_in.items[j].ext.xmax : j \in J})) - spacing
           /\ align_dict.ymin
                = Half(Min({tx_in.items[j].ext.ymin : j \in J})) + spacing
           /\ \A j \in J : EntryOf(tx_in.items[j].name).ext = tx_in.items[j].ext

\* the EPSG codes of the entries of geo_dict
EpsgSet == {geo_dict[i].epsg : i \in 1..Len(geo_dict)}

\* C17: a job whose resolved tiles do not share one EPSG code ends with an
\* error before DEM preparation, geocoding or product generation start, and
\* in a job where these steps run all tiles have the one EPSG code the steps
\* are given.
C17_SingleEpsgOrNoStep ==
    Called("processor_main") =>
        /\ Cardinality(EpsgSet) # 1 => (raised # "none" /\ steps = <<>>)
        /\ steps # <<>> =>
              \E e \in UtmCodes :
                  /\ \A i \in 1..Len(geo_dict) : geo_dict[i].epsg = e
                  /\ \A k \in 1..Len(steps) : steps[k].epsg = e

\* a job whose tiles lie in two UTM zones has ended with the error of the
\* EPSG check and without a step
C17_Witness ==
    /\ Called("processor_main")
    /\ Cardinality(EpsgSet) = 2
    /\ raised = "RuntimeError"
    /\ steps = <<>>

\* ------------------------------------ claims: create_rgb_vrt and vrt_pixfun
\* create_rgb_vrt has written the composite of two files
RgbWritten == Called("create_rgb_vrt") /\ raised = "none"

\* the file the band b of the composite reads
BandFile(b) == vrt_out.bands[b].sources[1].SourceFilename

\* C18: for two input files of which at least one is a co-polarisation, band 1
\* (Red) reads a co-polarisation file and band 2 (Green) the other input, and
\* the order of the inputs is reversed exactly when the second one is a
\* co-polarisation.
C18_CoPolIsRed ==
    (RgbWritten /\ \E i \in 1..2 : search(vrt_src[i]) \in CoPols) =>
        /\ vrt_out.bands[1].ColorInterp = "Red"
        /\ vrt_out.bands[2].ColorInterp = "Green"
        /\ search(BandFile(1)) \in CoPols
        /\ \E i \in 1..2 : BandFile(1) = vrt_src[i] /\ BandFile(2) = vrt_src[3 - i]
        /\ IF search(vrt_src[2]) \in CoPols
           THEN BandFile(1) = vrt_src[2] /\ BandFile(2) = vrt_src[1]
           ELSE BandFile(1) = vrt_src[1] /\ BandFile(2) = vrt_src[2]

\* the cross-polarisation file was passed first and the co-polarisation second
C18_Witness ==
    /\ RgbWritten
    /\ search(vrt_src[1]) \notin CoPols
    /\ search(vrt_src[2]) \in CoPols
    /\ BandFile(1) = vrt_src[2]

\* C19 as stated: band 3 (Blue) is a derived band with the pixel function
\* `div` over the sources of band 1 and band 2, in this order.
C19_BlueIsDiv ==
    RgbWritten =>
        /\ vrt_out.bands[3].ColorInterp = "Blue"
        /\ vrt_out.bands[3].subClass = "VRTDerivedRasterBand"
        /\ vrt_out.bands[3].PixelFunctionType = "div"
        /\ vrt_out.bands[3].sources = <<Source(BandFile(1)), Source(BandFile(2))>>

\* C19 amended: band 3 (Blue) is a derived band with the pixel function `mul`
\* over two sources, the first the source of band 1 and the second an
\* embedded derived band with the pixel function `inv` over the source of
\* band 2: the ratio band 1 / band 2 written as a product with a reciprocal.
C19_BlueIsMulInv ==
    RgbWritten =>
        /\ vrt_out.bands[3].ColorInterp = "Blue"
        /\ vrt_out.bands[3].subClass = "VRTDerivedRasterBand"
        /\ vrt_out.bands[3].PixelFunctionType = "mul"
        /\ vrt_out.bands[3].sources
              = <<Source(BandFile(1)), Embedded("inv", Source(BandFile(2)))>>

\* a composite of a co-polarisation and a cross-polarisation file whose
\* reciprocal is that of the cross-polarisation
C19_Witness ==
    /\ RgbWritten
    /\ search(BandFile(1)) \in CoPols
    /\ search(BandFile(2)) \notin CoPols
    /\ vrt_out.bands[3].sources[2].PixelFunctionType = "inv"
    /\ vrt_out.bands[3].sources[2].SourceFilename = BandFile(2)

\* C20: vrt_pixfun with the pixel function `mul` or `div` and fewer than two
\* sources ends with an error and writes no file.
C20_TwoSourcesRequired ==
    (Called("vrt_pixfun") /\ vrt_fun \in {"mul", "div"} /\ Len(vrt_src) < 2) =>
        /\ raised # "none"
        /\ ~vrt_out.written

\* ------------------------------------------------------------------ C21
\* C21: the decibel pixel function gives 10*log10(x) for every input x > 0
\* and no data (NaN) for every other input, whatever the output buffer held
\* before.
C21_DecibelOrNoData ==
    Called("decibel") =>
        \A p \in Pixels :
            IF Positive(db_in[p])
            THEN db_out[p] = 10 * log10(db_in[p])
            ELSE isnan(db_out[p])

\* ------------------------------------------------------------------ C22
\* the groups one after the other
RECURSIVE Flatten(_)
Flatten(gs) == IF gs = <<>> THEN <<>> ELSE Head(gs) \o Flatten(Tail(gs))

\* the number of scenes in the first g groups
RECURSIVE SizeUpTo(_)
SizeUpTo(g) == IF g = 0 THEN 0 ELSE SizeUpTo(g - 1) + Len(groups[g])

\* the group that holds the k-th scene of the sorted list
GroupOf(k) ==
    CHOOSE g \in 1..Len(groups) : SizeUpTo(g - 1) < k /\ k <= SizeUpTo(g)

\* C22: the groups are the start-sorted scene list cut into consecutive
\* pieces, and two adjacent scenes are in the same group exactly when the gap
\* from the stop of the earlier to the start of the later is at most `time`.
C22_GroupedByGap ==
    Called("group_by_time") =>
        /\ Flatten(groups) = gbt_scenes
        /\ \A k \in 1..(Len(gbt_scenes) - 1) :
              (GroupOf(k) = GroupOf(k + 1))
                  <=> (gbt_scenes[k + 1].start - gbt_scenes[k].stop <= gbt_time)

\* ------------------------------------------------------------------ C23
\* C23: for two footprints without common border (neither longitude test
\* matches) vec_from_srccoords ends with the RuntimeError 'not able to find
\* joined border' and returns no geometry.
C23_NoBorderRaises ==
    (/\ Called("vec_from_srccoords")
     /\ Len(coord_list) = 2
     /\ ~isclose(coord_list[1][1].lon, coord_list[2][4].lon)
     /\ ~isclose(coord_list[2][1].lon, coord_list[1][4].lon))
    => (raised = "RuntimeError" /\ wkt = <<>>)

\* ------------------------------------------------------------------ C24
\* two scenes of the selection differ in the attribute a
Differ(a) ==
    \E j, k \in 1..Len(csc_scenes) : csc_scenes[j][a] # csc_scenes[k][a]

\* C24: check_scene_consistency raises exactly when two scenes of the
\* selection differ in sensor, acquisition_mode, product or frameNumber, and
\* the error names the first of these attributes, in this order, in which
\* scenes differ.
C24_RaisesIffScenesDiffer ==
    Called("check_scene_consistency") =>
        /\ (raised # "none") <=> (\E a \in 1..Len(Attrs) : Differ(Attrs[a]))
        /\ raised # "none" =>
              \E a \in 1..Len(Attrs) :
                  /\ csc_attr = Attrs[a]
                  /\ Differ(Attrs[a])
                  /\ \A b \in 1..(a - 1) : ~Differ(Attrs[b])

\* ------------------------------------------------------------------ C25
\* the loop of nrb_processing has begun
InOverlap == op = "nrb_overlap" /\ raised = "none"

\* the scenes of the argument that overlap the tile, in their order
Overlapping == SelectSeq(Identified(ov_scenes), LAMBDA d : d.overlaps)

\* after every iteration: ids and datasets have the same length and pair up,
\* every entry before i overlaps the tile, and snap_dm_tile_overlap is the
\* mask path of each of them, in the order of ids
OverlapInv ==
    InOverlap =>
        /\ Len(ov_ids) = Len(ov_datasets)
        /\ \A k \in 1..Len(ov_ids) : ov_datasets[k].scene = ov_ids[k]
        /\ ov_i <= Len(ov_datasets)
        /\ \A k \in 1..ov_i : ov_datasets[k].overlaps
        /\ snap_dm_tile_overlap = [k \in 1..ov_i |-> [datamask |-> ov_ids[k]]]
        /\ pc = "done" =>
              /\ [k \in 1..Len(ov_ids) |-> ov_datasets[k].scene]
                    = [k \in 1..Len(Overlapping) |-> Overlapping[k].scene]
              /\ Len(snap_dm_tile_overlap) = Len(ov_ids)

\* without an overlapping scene the call ends with the error and without
\* output directory
NoOverlapFails ==
    (op = "nrb_overlap" /\ pc = "done" /\ Len(Overlapping) = 0)
        => (raised = "RuntimeError" /\ ~nrbdir)

C26_CallerListsUnchanged ==
    /\ (Called("create_rgb_vrt") /\ raised = "none") => infiles = vrt_src
    /\ Called("create_acq_id_image") => creation_opt = BaseCreationOpt

\* ------------------------------------------------------------------ C27
\* the k-th call of the job is a geocoding that raised
GeocodeFailed(k) ==
    job_log[k].call = "geocode" /\ job_log[k].result \in {"raise", "dem_error"}

\* C27: in a job with geocoding and NRB generation enabled, a geocoding that
\* raises is the last call of the job (no later scene is geocoded and
\* nrb_processing is never started), and nrb_processing is started only after
\* every selected scene went through the geocoding loop without exception.
C27_NoNrbAfterGeocodeError ==
    (op = "main" /\ job_mode = "all") =>
        /\ \A k \in 1..Len(job_log) : GeocodeFailed(k) => k = Len(job_log)
        /\ \A k \in 1..Len(job_log) :
              job_log[k].call = "nrb_processing" =>
                  /\ k > Len(job_scenes)
                  /\ \A s \in 1..Len(job_scenes) :
                        /\ job_log[s].call = "geocode"
                        /\ job_log[s].scene = s
                        /\ job_log[s].result \in {"ok", "skip"}

\* the geocoding of the second of three scenes raised and the job has ended
\* with the first scene geocoded and nothing else done
C27_Witness ==
    /\ op = "main"
    /\ job_mode = "all"
    /\ pc = "done"
    /\ Len(job_scenes) = 3
    /\ job_scenes[1] = "ok"
    /\ job_scenes[2] = "raise"
    /\ Len(job_log) = 2

\* ------------------------------------------------------------------ C28
\* C28: every multi-layer data mask that create_data_mask writes, with three
\* bands without a water body mask and four with one, passes the band-count
\* check of stacparser.product_json.
C28_MultiLayerPassesBandCheck ==
    (/\ Called("create_data_mask")
     /\ raised = "none"
     /\ Len(fs.dm.bands) > 1) => BandCountCheck(fs.dm) = "none"

\* ------------------------------------------------------------------ C29
\* C29: for two source scenes, passed in chronological order or not, each
\* value of the acquisition id asset in the STAC item names the source that
\* the tag of the acquisition id image gives for this value.
C29_StacValuesMatchTag ==
    (Called("create_acq_id_image") /\ Len(scenes_arg) = 2) =>
        \A i \in 1..Len(scenes_arg) : \A k \in 1..Len(tag) :
            tag[k].idx = StacIdValues(MetaSource(scenes_arg))[i].value =>
                tag[k].src = StacIdValues(MetaSource(scenes_arg))[i].summary

\* ------------------------------------------------------------------ C30
\* C30: two runs of create_data_mask on the same files give the same fused
\* raster, whichever polarisation's backscatter file each run picks.
C30_SameResultForAnyPolarisation ==
    (op = "create_data_mask_runs" /\ pc = "done") =>
        dm_runs[1].out_arr = dm_runs[2].out_arr

====
